---- MODULE Spec2Model ----
(***************************************************************************)
(* Job-Matching-System: the pipeline of app.py over job_matcher.py.        *)
(*                                                                         *)
(*   resume document --extract_text_from_pdf/docx--> resume_text           *)
(*   resume_text     --extract_resume_info---------> resume_info           *)
(*   job texts       --parse_job_descriptions------> job_descriptions      *)
(*   both            --match_resume_with_jobs------> match_results         *)
(*   match_results   --max(..., default=None)------> best_fit --> display  *)
(*                                                                         *)
(* A Python str is a sequence of one-character strings, so that the        *)
(* regular expressions, str.endswith, int() and json.loads of the source   *)
(* are computed character by character.  A real number is kept exactly:    *)
(* total_experience in twelfths of a year, skills_match_percentage as a    *)
(* reduced fraction.                                                       *)
(***************************************************************************)
EXTENDS Integers, Sequences, FiniteSets, TLC

(***************************************************************************)
(* Characters and character classes of the re module (ASCII).              *)
(***************************************************************************)
Digits == {"0", "1", "2", "3", "4", "5", "6", "7", "8", "9"}

UpperLetters ==
    {"A", "B", "C", "D", "E", "F", "G", "H", "I", "J", "K", "L", "M",
     "N", "O", "P", "Q", "R", "S", "T", "U", "V", "W", "X", "Y", "Z"}

LowerLetters ==
    {"a", "b", "c", "d", "e", "f", "g", "h", "i", "j", "k", "l", "m",
     "n", "o", "p", "q", "r", "s", "t", "u", "v", "w", "x", "y", "z"}

\* [A-Za-z]
Letters == UpperLetters \cup LowerLetters

\* \s
Whitespace == {" ", "\n", "\t", "\r"}

\* \w
WordChars == Letters \cup Digits \cup {"_"}

\* [A-Za-z\s], the class of the resume pattern's last group
PhraseChars == Letters \cup Whitespace

DigitValue(c) ==
    CASE c = "0" -> 0 [] c = "1" -> 1 [] c = "2" -> 2 [] c = "3" -> 3
      [] c = "4" -> 4 [] c = "5" -> 5 [] c = "6" -> 6 [] c = "7" -> 7
      [] c = "8" -> 8 [] c = "9" -> 9

\* int(s) of a string of decimal digits
RECURSIVE int(_)
int(s) ==
    IF s = <<>> THEN 0
    ELSE 10 * int(SubSeq(s, 1, Len(s) - 1)) + DigitValue(s[Len(s)])

LowerChar(c) ==
    CASE c = "A" -> "a" [] c = "B" -> "b" [] c = "C" -> "c" [] c = "D" -> "d"
      [] c = "E" -> "e" [] c = "F" -> "f" [] c = "G" -> "g" [] c = "H" -> "h"
      [] c = "I" -> "i" [] c = "J" -> "j" [] c = "K" -> "k" [] c = "L" -> "l"
      [] c = "M" -> "m" [] c = "N" -> "n" [] c = "O" -> "o" [] c = "P" -> "p"
      [] c = "Q" -> "q" [] c = "R" -> "r" [] c = "S" -> "s" [] c = "T" -> "t"
      [] c = "U" -> "u" [] c = "V" -> "v" [] c = "W" -> "w" [] c = "X" -> "x"
      [] c = "Y" -> "y" [] c = "Z" -> "z" [] OTHER -> c

\* str.lower()
lower(s) == [i \in 1..Len(s) |-> LowerChar(s[i])]

\* s.startswith(p, i - 1)
StartsWithAt(s, p, i) ==
    /\ i + Len(p) - 1 <= Len(s)
    /\ SubSeq(s, i, i + Len(p) - 1) = p

\* s.endswith(p)
endswith(s, p) ==
    /\ Len(p) <= Len(s)
    /\ SubSeq(s, Len(s) - Len(p) + 1, Len(s)) = p

\* p in s  (substring test)
Contains(s, p) == \E i \in 1..(Len(s) + 1) : StartsWithAt(s, p, i)

\* The first position >= i whose character is not in class, Len(s) + 1 if none:
\* where a greedy class* that starts at i ends.
RECURSIVE RunEnd(_, _, _)
RunEnd(s, i, class) ==
    IF i <= Len(s) /\ s[i] \in class THEN RunEnd(s, i + 1, class) ELSE i

(***************************************************************************)
(* String constants of the source.                                         *)
(***************************************************************************)
STR_NA == <<"N", "/", "A">>
STR_title == <<"t", "i", "t", "l", "e">>
STR_description == <<"d", "e", "s", "c", "r", "i", "p", "t", "i", "o", "n">>
STR_dot_json == <<".", "j", "s", "o", "n">>
STR_year == <<"y", "e", "a", "r">>
STR_month == <<"m", "o", "n", "t", "h">>
STR_newline == <<"\n">>

\* {'Bachelor', 'Master', 'PhD', 'Associate', 'Degree', 'Certification'}
education_keywords ==
    { <<"B", "a", "c", "h", "e", "l", "o", "r">>,
      <<"M", "a", "s", "t", "e", "r">>,
      <<"P", "h", "D">>,
      <<"A", "s", "s", "o", "c", "i", "a", "t", "e">>,
      <<"D", "e", "g", "r", "e", "e">>,
      <<"C", "e", "r", "t", "i", "f", "i", "c", "a", "t", "i", "o", "n">> }

(***************************************************************************)
(* re.findall(r'\b\w+\b', s): the maximal runs of word characters, in      *)
(* order, duplicates kept.                                                 *)
(***************************************************************************)
RECURSIVE FindWords(_, _)
FindWords(s, i) ==
    IF i > Len(s) THEN <<>>
    ELSE IF s[i] \in WordChars
         THEN LET e == RunEnd(s, i, WordChars)
              IN  <<SubSeq(s, i, e - 1)>> \o FindWords(s, e)
         ELSE FindWords(s, i + 1)

(***************************************************************************)
(* re.findall(r'\b(Bachelor|Master|PhD|Associate|Degree|Certification)\b', *)
(* s): a keyword is all word characters, so with a boundary on both sides  *)
(* a match is a maximal word run that is a keyword.                        *)
(***************************************************************************)
FindEducation(s) == SelectSeq(FindWords(s, 1), LAMBDA w : w \in education_keywords)

(***************************************************************************)
(* (\d+)\s+(years?|months?) tried at position i: \d+ must reach the end of *)
(* the digit run (a \s follows it), \s+ the end of the whitespace run (a   *)
(* letter follows it), and s? is greedy.                                   *)
(* [ok, number, unit, end]: end is the position after the match.           *)
(***************************************************************************)
MatchQuantity(s, i) ==
    LET d == RunEnd(s, i, Digits)
        w == RunEnd(s, d, Whitespace)
        stem == IF StartsWithAt(s, STR_year, w) THEN STR_year
                ELSE IF StartsWithAt(s, STR_month, w) THEN STR_month
                ELSE <<>>
        u == w + Len(stem)
        plural == u <= Len(s) /\ s[u] = "s"
    IN  IF d > i /\ w > d /\ stem # <<>>
        THEN [ok |-> TRUE, number |-> SubSeq(s, i, d - 1), plural |-> plural,
              unit |-> IF plural THEN stem \o <<"s">> ELSE stem,
              end |-> IF plural THEN u + 1 ELSE u]
        ELSE [ok |-> FALSE, number |-> <<>>, plural |-> FALSE, unit |-> <<>>, end |-> i]

\* re.findall(r'(\d+)\s+(years?|months?)', s): (number, unit) pairs,
\* leftmost first, not overlapping
RECURSIVE FindJobExperience(_, _)
FindJobExperience(s, i) ==
    IF i > Len(s) THEN <<>>
    ELSE LET m == MatchQuantity(s, i)
         IN  IF m.ok
             THEN <<[number |-> m.number, unit |-> m.unit]>> \o FindJobExperience(s, m.end)
             ELSE FindJobExperience(s, i + 1)

(***************************************************************************)
(* (\d+)\s+(years?|months?)\s+(of|in)?\s*([A-Za-z\s]+) tried at i.  After  *)
(* the unit the pattern needs one whitespace and then one more character   *)
(* of [A-Za-z\s]; everything it consumes from there is in that class and   *)
(* the last group is greedy, so the match ends where the run of            *)
(* [A-Za-z\s] ends.  When "years"/"months" is not followed by whitespace   *)
(* the alternative without the s fails too (an "s" is no whitespace).      *)
(***************************************************************************)
MatchResumeExperience(s, i) ==
    LET m == MatchQuantity(s, i)
        e == m.end
    IN  IF /\ m.ok
           /\ e + 1 <= Len(s)
           /\ s[e] \in Whitespace
           /\ s[e + 1] \in PhraseChars
        THEN [ok |-> TRUE, number |-> m.number, unit |-> m.unit,
              end |-> RunEnd(s, e, PhraseChars)]
        ELSE [ok |-> FALSE, number |-> <<>>, unit |-> <<>>, end |-> i]

\* re.findall of the resume pattern: exp[0] and exp[1] of every match
RECURSIVE FindResumeExperience(_, _)
FindResumeExperience(s, i) ==
    IF i > Len(s) THEN <<>>
    ELSE LET m == MatchResumeExperience(s, i)
         IN  IF m.ok
             THEN <<[number |-> m.number, unit |-> m.unit]>>
                      \o FindResumeExperience(s, m.end)
             ELSE FindResumeExperience(s, i + 1)

\* sum(int(exp[0]) for exp in entries)
RECURSIVE SumNumbers(_)
SumNumbers(entries) ==
    IF entries = <<>> THEN 0
    ELSE int(Head(entries).number) + SumNumbers(Tail(entries))

\* set(list)
set(seq) == {seq[i] : i \in 1..Len(seq)}

(***************************************************************************)
(* json.loads(s), for the JSON texts the pipeline meets: an object whose   *)
(* members are strings without escapes, or an integer.  Anything else is a *)
(* JSONDecodeError.  [kind |-> "dict", items |-> <<[key, value], ...>>],   *)
(* [kind |-> "int"] or [kind |-> "JSONDecodeError"].                       *)
(***************************************************************************)
JSONDecodeError == [kind |-> "JSONDecodeError", items |-> <<>>]

\* A JSON string that starts at s[i]: no escape and no control character
JsonString(s, i) ==
    IF i <= Len(s) /\ s[i] = "\""
    THEN LET e == RunEnd(s, i + 1, {s[j] : j \in 1..Len(s)} \ {"\"", "\\", "\n", "\t", "\r"})
         IN  IF e <= Len(s) /\ s[e] = "\""
             THEN [ok |-> TRUE, value |-> SubSeq(s, i + 1, e - 1), end |-> e + 1]
             ELSE [ok |-> FALSE, value |-> <<>>, end |-> i]
    ELSE [ok |-> FALSE, value |-> <<>>, end |-> i]

\* The members of an object from s[i] on, to its closing brace
RECURSIVE JsonMembers(_, _, _)
JsonMembers(s, i, items) ==
    LET k == JsonString(s, i)
        c == RunEnd(s, k.end, Whitespace)
        v == JsonString(s, RunEnd(s, c + 1, Whitespace))
        n == RunEnd(s, v.end, Whitespace)
        got == Append(items, [key |-> k.value, value |-> v.value])
    IN  IF k.ok /\ c <= Len(s) /\ s[c] = ":" /\ v.ok /\ n <= Len(s)
        THEN IF s[n] = "}" THEN [ok |-> TRUE, items |-> got, end |-> n + 1]
             ELSE IF s[n] = ","
                  THEN JsonMembers(s, RunEnd(s, n + 1, Whitespace), got)
                  ELSE [ok |-> FALSE, items |-> <<>>, end |-> i]
        ELSE [ok |-> FALSE, items |-> <<>>, end |-> i]

json_loads(s) ==
    LET i == RunEnd(s, 1, Whitespace)
    IN  IF i <= Len(s) /\ s[i] = "{"
        THEN LET j == RunEnd(s, i + 1, Whitespace)
                 m == IF j <= Len(s) /\ s[j] = "}"
                      THEN [ok |-> TRUE, items |-> <<>>, end |-> j + 1]
                      ELSE JsonMembers(s, j, <<>>)
             IN  IF m.ok /\ RunEnd(s, m.end, Whitespace) = Len(s) + 1
                 THEN [kind |-> "dict", items |-> m.items]
                 ELSE JSONDecodeError
        ELSE LET d == RunEnd(s, i, Digits)
             IN  IF /\ d > i
                    /\ RunEnd(s, d, Whitespace) = Len(s) + 1
                    /\ (s[i] = "0" => d = i + 1)
                 THEN [kind |-> "int", items |-> <<>>]
                 ELSE JSONDecodeError

\* key in d
HasKey(d, key) == \E i \in 1..Len(d.items) : d.items[i].key = key

\* d.get(key, default): of a repeated key json.loads keeps the last value
get(d, key, default) ==
    IF HasKey(d, key)
    THEN LET last == CHOOSE i \in 1..Len(d.items) :
                        /\ d.items[i].key = key
                        /\ \A j \in (i + 1)..Len(d.items) : d.items[j].key # key
         IN  d.items[last].value
    ELSE default

(***************************************************************************)
(* extract_text_from_pdf: every page's text followed by a newline.         *)
(* page.extract_text() is a str, empty when the page has no text.          *)
(***************************************************************************)
\* A faulty variant: a page without text is skipped
RECURSIVE extract_text_skipping_empty(_)
extract_text_skipping_empty(pages) ==
    IF pages = <<>> THEN <<>>
    ELSE IF Head(pages) = <<>> THEN extract_text_skipping_empty(Tail(pages))
    ELSE Head(pages) \o STR_newline \o extract_text_skipping_empty(Tail(pages))

RECURSIVE extract_text_from_pdf(_)
extract_text_from_pdf(pages) ==
    IF pages = <<>> THEN <<>>
    ELSE Head(pages) \o STR_newline \o extract_text_from_pdf(Tail(pages))

\* extract_text_from_docx: '\n'.join of the paragraphs' texts
RECURSIVE extract_text_from_docx(_)
extract_text_from_docx(paragraphs) ==
    IF paragraphs = <<>> THEN <<>>
    ELSE IF Len(paragraphs) = 1 THEN Head(paragraphs)
    ELSE Head(paragraphs) \o STR_newline \o extract_text_from_docx(Tail(paragraphs))

(***************************************************************************)
(* extract_resume_info.  tagger is the spaCy model: the surface forms it   *)
(* tags NOUN and those it tags PROPN.  list(skills) and list(education)    *)
(* enumerate a set in an order the source does not fix: skills_list and    *)
(* education_list are that order, chosen by the caller.                    *)
(***************************************************************************)
\* doc = nlp(resume_text): the tokens with their part of speech
Doc(tagger, resume_text) ==
    LET words == FindWords(resume_text, 1)
    IN  [i \in 1..Len(words) |->
            [text |-> words[i],
             pos_ |-> IF words[i] \in tagger.PROPN THEN "PROPN"
                      ELSE IF words[i] \in tagger.NOUN THEN "NOUN"
                      ELSE "X"]]

ResumeSkills(doc) ==
    {doc[i].text : i \in {j \in 1..Len(doc) :
                            doc[j].pos_ \in {"NOUN", "PROPN"} /\ Len(doc[j].text) > 1}}

ResumeEducation(doc) ==
    {doc[i].text : i \in {j \in 1..Len(doc) : doc[j].text \in education_keywords}}

\* sum(int(exp[0]) for exp in experience if 'year' in exp[1].lower())
ExperienceYears(experience) ==
    SumNumbers(SelectSeq(experience, LAMBDA e : Contains(lower(e.unit), STR_year)))

\* sum(int(exp[0]) for exp in experience if 'month' in exp[1].lower())
ExperienceMonths(experience) ==
    SumNumbers(SelectSeq(experience, LAMBDA e : Contains(lower(e.unit), STR_month)))

\* A faulty variant: the months are added as if they were years
TotalExperienceUnconverted(experience) ==
    12 * (ExperienceYears(experience) + ExperienceMonths(experience))

\* experience_years + experience_months / 12, in twelfths of a year
TotalExperience(experience) ==
    12 * ExperienceYears(experience) + ExperienceMonths(experience)

\* list(a_set): the sequences that hold every element once
Listings(S) == {q \in [1..Cardinality(S) -> S] : set(q) = S}

extract_resume_info(resume_text, skills_list, education_list) ==
    [skills |-> skills_list,
     education |-> education_list,
     total_experience |-> TotalExperience(FindResumeExperience(resume_text, 1))]

(***************************************************************************)
(* parse_job_descriptions.  A raised exception ends the function with no   *)
(* list returned: [raised |-> the exception's name, value |-> <<>>].       *)
(***************************************************************************)
\* One pass of the loop body: the job record, or the exception
ParseJob(text) ==
    LET json == endswith(text, STR_dot_json)
        job_desc == IF json THEN json_loads(text)
                    ELSE [kind |-> "dict",
                          items |-> <<[key |-> STR_description, value |-> text]>>]
        description == get(job_desc, STR_description, <<>>)
    IN  IF job_desc.kind = "JSONDecodeError"
        THEN [raised |-> "JSONDecodeError", job |-> <<>>]
        ELSE IF job_desc.kind # "dict"
        THEN [raised |-> "AttributeError", job |-> <<>>]
        ELSE IF ~HasKey(job_desc, STR_description)
        \* re.findall(pattern, re.I): the default of line 108 is no string
        THEN [raised |-> "TypeError", job |-> <<>>]
        ELSE [raised |-> "",
              job |-> <<[description |-> description,
                         requirements |-> FindWords(description, 1),
                         experience_required |-> FindJobExperience(description, 1),
                         education_required |-> FindEducation(description),
                         job_title |-> get(job_desc, STR_title, STR_NA)]>>]

RECURSIVE ParseJobs(_, _)
ParseJobs(job_desc_texts, job_descriptions) ==
    IF job_desc_texts = <<>> THEN [raised |-> "", value |-> job_descriptions]
    ELSE LET r == ParseJob(Head(job_desc_texts))
         IN  IF r.raised # "" THEN [raised |-> r.raised, value |-> <<>>]
             ELSE ParseJobs(Tail(job_desc_texts), job_descriptions \o r.job)

parse_job_descriptions(job_desc_texts) == ParseJobs(job_desc_texts, <<>>)

(***************************************************************************)
(* match_resume_with_jobs.  A percentage is the fraction num/den in lowest *)
(* terms; total_experience is in twelfths of a year.                       *)
(***************************************************************************)
RECURSIVE GCD(_, _)
GCD(a, b) == IF b = 0 THEN a ELSE GCD(b, a % b)

Fraction(n, d) == LET g == GCD(n, d) IN [num |-> n \div g, den |-> d \div g]

\* a < b, of fractions
Less(a, b) == a.num * b.den < b.num * a.den

\* A faulty variant: the denominator counts the distinct requirement tokens
MatchPercentageDistinct(skills, job_skills) ==
    LET skills_match == Cardinality(set(skills) \cap set(job_skills))
        total_skills == Cardinality(set(job_skills))
    IN  IF total_skills > 0 THEN Fraction(100 * skills_match, total_skills)
        ELSE Fraction(0, 1)

\* A faulty variant: the union of the two sets instead of their intersection
MatchPercentageUnion(skills, job_skills) ==
    LET skills_match == Cardinality(set(skills) \cup set(job_skills))
        total_skills == Len(job_skills)
    IN  IF total_skills > 0 THEN Fraction(100 * skills_match, total_skills)
        ELSE Fraction(0, 1)

\* (skills_match / total_skills) * 100 if total_skills > 0 else 0
MatchPercentage(skills, job_skills) ==
    LET skills_match == Cardinality(set(skills) \cap set(job_skills))
        total_skills == Len(job_skills)
    IN  IF total_skills > 0 THEN Fraction(100 * skills_match, total_skills)
        ELSE Fraction(0, 1)

\* A faulty variant: a months entry counts as its whole years
RECURSIVE SumYears(_)
SumYears(entries) ==
    IF entries = <<>> THEN 0
    ELSE (IF Contains(Head(entries).unit, STR_month)
          THEN int(Head(entries).number) \div 12
          ELSE int(Head(entries).number)) + SumYears(Tail(entries))

ExperienceRequiredInYears(entries) ==
    IF entries # <<>> THEN SumYears(entries) ELSE 0

\* sum(int(exp[0]) for exp in job['experience_required']) if job['experience_required'] else 0
ExperienceRequired(entries) ==
    IF entries # <<>> THEN SumNumbers(entries) ELSE 0

\* resume_info['total_experience'] >= experience_required
ExperienceMatch(total_experience, experience_required) ==
    total_experience >= 12 * experience_required

\* A faulty variant: all(...) instead of any(...)
EducationMatchAll(education, education_required) ==
    \A i \in 1..Len(education_required) :
        \E j \in 1..Len(education) : education[j] = education_required[i]

\* A faulty variant: only the first education entry of the resume is compared
EducationMatchFirst(education, education_required) ==
    /\ education # <<>>
    /\ \E i \in 1..Len(education_required) : education[1] = education_required[i]

\* any(edu in resume_info['education'] for edu in job['education_required'])
EducationMatch(education, education_required) ==
    \E i \in 1..Len(education_required) :
        \E j \in 1..Len(education) : education[j] = education_required[i]

MatchJob(resume_info, job) ==
    [job_title |-> job.job_title,
     job_description |-> job.description,
     skills_match_percentage |-> MatchPercentage(resume_info.skills, job.requirements),
     experience_match |->
         ExperienceMatch(resume_info.total_experience,
                         ExperienceRequired(job.experience_required)),
     education_match |-> EducationMatch(resume_info.education, job.education_required),
     total_experience_required |-> ExperienceRequired(job.experience_required)]

match_resume_with_jobs(resume_info, job_descriptions) ==
    [i \in 1..Len(job_descriptions) |-> MatchJob(resume_info, job_descriptions[i])]

(***************************************************************************)
(* max(match_results, key=lambda x: x['skills_match_percentage'],          *)
(* default=None): the builtin keeps the first item and replaces it only by *)
(* an item whose key is greater.                                           *)
(***************************************************************************)
None == [none |-> TRUE]

\* A faulty variant: an item with an equal key replaces the kept one
RECURSIVE MaxFromLast(_, _)
MaxFromLast(best, rest) ==
    IF rest = <<>> THEN best
    ELSE IF Less(Head(rest).skills_match_percentage, best.skills_match_percentage)
         THEN MaxFromLast(best, Tail(rest))
         ELSE MaxFromLast(Head(rest), Tail(rest))

RECURSIVE MaxFrom(_, _)
MaxFrom(best, rest) ==
    IF rest = <<>> THEN best
    ELSE IF Less(best.skills_match_percentage, Head(rest).skills_match_percentage)
         THEN MaxFrom(Head(rest), Tail(rest))
         ELSE MaxFrom(best, Tail(rest))

max(results) ==
    IF results = <<>> THEN None ELSE MaxFrom(Head(results), Tail(results))

(***************************************************************************)
(* The inputs: the uploaded documents and the tagging model.               *)
(***************************************************************************)
\* How many pages (paragraphs) an uploaded resume has at most
MaxPages == 2

\* How many job descriptions are uploaded at most
MaxJobs == 2

\* How many match results the selection is given at most
MaxResults == 3

W_Py == <<"P", "y">>
W_py == <<"p", "y">>
W_SQL == <<"S", "Q", "L">>
W_C == <<"C">>
W_PhD == <<"P", "h", "D">>
W_years == <<"y", "e", "a", "r", "s">>
W_Dev == <<"D", "e", "v">>

\* "5 years of Py"
PageYears == <<"5", " ", "y", "e", "a", "r", "s", " ", "o", "f", " ", "P", "y">>
\* "6 months in SQL"
PageMonths == <<"6", " ", "m", "o", "n", "t", "h", "s", " ", "i", "n", " ", "S", "Q", "L">>
\* "PhD Degree C 2 years"
PageDegree ==
    <<"P", "h", "D", " ", "D", "e", "g", "r", "e", "e", " ", "C", " ",
      "2", " ", "y", "e", "a", "r", "s">>
\* a page with no text
PageEmpty == <<>>

PageTexts == {PageYears, PageMonths, PageDegree, PageEmpty}

\* "Py SQL Py"
JobSkills == <<"P", "y", " ", "S", "Q", "L", " ", "P", "y">>
\* "PhD 3 years py"
JobDegree == <<"P", "h", "D", " ", "3", " ", "y", "e", "a", "r", "s", " ", "p", "y">>
\* "6 months C"
JobMonths == <<"6", " ", "m", "o", "n", "t", "h", "s", " ", "C">>
\* ""
JobEmpty == <<>>
\* "Py"
JobOne == <<"P", "y">>
\* {"title":"Dev","description":"Py"}
JobJson ==
    <<"{", "\"", "t", "i", "t", "l", "e", "\"", ":", "\"", "D", "e", "v", "\"", ",",
      "\"", "d", "e", "s", "c", "r", "i", "p", "t", "i", "o", "n", "\"", ":",
      "\"", "P", "y", "\"", "}">>
\* {"title":"Dev"     (cut off)
JobJsonCut == <<"{", "\"", "t", "i", "t", "l", "e", "\"", ":", "\"", "D", "e", "v", "\"">>
\* "jobs.json"
JobDotJson == <<"j", "o", "b", "s", ".", "j", "s", "o", "n">>

JobTexts ==
    {JobSkills, JobDegree, JobMonths, JobEmpty, JobOne, JobJson, JobJsonCut, JobDotJson}

\* "PhD 3 years Py SQL Py"
JobReference ==
    <<"P", "h", "D", " ", "3", " ", "y", "e", "a", "r", "s", " ", "P", "y", " ",
      "S", "Q", "L", " ", "P", "y">>

\* What spacy.load('en_core_web_sm') may tag as a noun or a proper noun
Taggers ==
    { [NOUN |-> {}, PROPN |-> {}],
      [NOUN |-> {}, PROPN |-> {W_Py, W_SQL, W_C, W_PhD}],
      [NOUN |-> {W_years, W_py}, PROPN |-> {W_Py, W_SQL, W_C, W_PhD}] }

\* The sequences over S of at most n elements
SeqUpTo(S, n) == UNION {[1..k -> S] : k \in 0..n}

NoFile == [type |-> "none", parts |-> <<>>]

ResumeFiles ==
    {[type |-> t, parts |-> ps] : t \in {"pdf", "docx"}, ps \in SeqUpTo(PageTexts, MaxPages)}

ResumeReference == [type |-> "pdf", parts |-> <<PageYears, PageDegree>>]

\* The results the selection is tried on
SampleResults ==
    {[job_title |-> t, job_description |-> <<>>, skills_match_percentage |-> p,
      experience_match |-> TRUE, education_match |-> FALSE,
      total_experience_required |-> 0] :
        t \in {W_Dev, STR_NA}, p \in {Fraction(0, 1), Fraction(100, 3), Fraction(100, 2)}}

(***************************************************************************)
(* The script of app.py, one action per call.                              *)
(***************************************************************************)
VARIABLES
    resume_file,       \* the uploaded resume: its type and its pages or paragraphs
    job_desc_texts,    \* the uploaded job descriptions, as read_file_content decodes them
    nlp,               \* the tagging model
    pc,                \* where the script is
    resume_text,
    resume_info,
    job_descriptions,
    match_results,
    best_fit,
    shown,             \* what the page shows
    error              \* the exception that ended the script, "" if none

vars == <<resume_file, job_desc_texts, nlp, pc, resume_text, resume_info,
          job_descriptions, match_results, best_fit, shown, error>>

NoInfo == [skills |-> <<>>, education |-> <<>>, total_experience |-> 0]

Blank ==
    /\ resume_text = <<>>
    /\ resume_info = NoInfo
    /\ job_descriptions = <<>>
    /\ match_results = <<>>
    /\ best_fit = None
    /\ shown = <<>>
    /\ error = ""

\* Either the resume varies and the job is the reference one, or the resume is
\* the reference one and the jobs vary; or a document is missing.
Init ==
    /\ pc = "start"
    /\ nlp \in Taggers
    /\ \/ resume_file \in ResumeFiles /\ job_desc_texts = <<JobReference>>
       \/ resume_file = ResumeReference /\ job_desc_texts \in SeqUpTo(JobTexts, MaxJobs)
       \/ resume_file = NoFile /\ job_desc_texts = <<JobReference>>
    /\ Blank

\* app.py 73-75: a document is missing
Warn ==
    /\ pc = "start"
    /\ resume_file = NoFile \/ job_desc_texts = <<>>
    /\ shown' = <<"warning">>
    /\ pc' = "done"
    /\ UNCHANGED <<resume_file, job_desc_texts, nlp, resume_text, resume_info,
                   job_descriptions, match_results, best_fit, error>>

\* app.py 48-49
ExtractPdf ==
    /\ pc = "start"
    /\ resume_file # NoFile /\ job_desc_texts # <<>>
    /\ resume_file.type = "pdf"
    /\ resume_text' = extract_text_from_pdf(resume_file.parts)
    /\ pc' = "text"
    /\ UNCHANGED <<resume_file, job_desc_texts, nlp, resume_info, job_descriptions,
                   match_results, best_fit, shown, error>>

\* app.py 50-51
ExtractDocx ==
    /\ pc = "start"
    /\ resume_file # NoFile /\ job_desc_texts # <<>>
    /\ resume_file.type = "docx"
    /\ resume_text' = extract_text_from_docx(resume_file.parts)
    /\ pc' = "text"
    /\ UNCHANGED <<resume_file, job_desc_texts, nlp, resume_info, job_descriptions,
                   match_results, best_fit, shown, error>>

\* app.py 54
ExtractResumeInfo ==
    /\ pc = "text"
    /\ LET doc == Doc(nlp, resume_text)
       IN  \E skills_list \in Listings(ResumeSkills(doc)) :
           \E education_list \in Listings(ResumeEducation(doc)) :
               resume_info' = extract_resume_info(resume_text, skills_list, education_list)
    /\ pc' = "info"
    /\ UNCHANGED <<resume_file, job_desc_texts, nlp, resume_text, job_descriptions,
                   match_results, best_fit, shown, error>>

\* app.py 57-58
ParseJobDescriptions ==
    /\ pc = "info"
    /\ \E r \in {parse_job_descriptions(job_desc_texts)} :
           IF r.raised = ""
           THEN /\ job_descriptions' = r.value
                /\ pc' = "parsed"
                /\ error' = error
           ELSE /\ job_descriptions' = job_descriptions
                /\ pc' = "raised"
                /\ error' = r.raised
    /\ UNCHANGED <<resume_file, job_desc_texts, nlp, resume_text, resume_info,
                   match_results, best_fit, shown>>

\* app.py 61
MatchResumeWithJobs ==
    /\ pc = "parsed"
    /\ match_results' = match_resume_with_jobs(resume_info, job_descriptions)
    /\ pc' = "matched"
    /\ UNCHANGED <<resume_file, job_desc_texts, nlp, resume_text, resume_info,
                   job_descriptions, best_fit, shown, error>>

\* app.py 64
SelectBestFit ==
    /\ pc = "matched"
    /\ best_fit' = max(match_results)
    /\ pc' = "selected"
    /\ UNCHANGED <<resume_file, job_desc_texts, nlp, resume_text, resume_info,
                   job_descriptions, match_results, shown, error>>

\* if best_fit: a dict with keys is true, None is not
Truthy(x) == x # None

\* app.py 67-72: the heading and the four lines about the best fit
Display ==
    /\ pc = "selected"
    /\ shown' = IF Truthy(best_fit)
                THEN <<"Best Job Fit", "Job Description", "Skills Match Percentage",
                       "Experience Match", "Education Match">>
                ELSE <<>>
    /\ pc' = "done"
    /\ UNCHANGED <<resume_file, job_desc_texts, nlp, resume_text, resume_info,
                   job_descriptions, match_results, best_fit, error>>

Next ==
    \/ Warn
    \/ ExtractPdf
    \/ ExtractDocx
    \/ ExtractResumeInfo
    \/ ParseJobDescriptions
    \/ MatchResumeWithJobs
    \/ SelectBestFit
    \/ Display

Spec == Init /\ [][Next]_vars

(***************************************************************************)
(* The selection of app.py 64-72 on its own, given any sequence of match   *)
(* results, the empty one included.                                        *)
(***************************************************************************)
InitSelect ==
    /\ pc = "matched"
    /\ nlp = [NOUN |-> {}, PROPN |-> {}]
    /\ resume_file = ResumeReference
    /\ job_desc_texts = <<>>
    /\ match_results \in SeqUpTo(SampleResults, MaxResults)
    /\ resume_text = <<>>
    /\ resume_info = NoInfo
    /\ job_descriptions = <<>>
    /\ best_fit = None
    /\ shown = <<>>
    /\ error = ""

NextSelect == SelectBestFit \/ Display

SpecSelect == InitSelect /\ [][NextSelect]_vars

(***************************************************************************)
(* The properties.                                                         *)
(***************************************************************************)
\* match_results holds the results of the job_descriptions of this run
Matched == pc \in {"matched", "selected", "done"} /\ shown # <<"warning">>

\* a <= b, of fractions
LessEq(a, b) == ~Less(b, a)

Hundred == Fraction(100, 1)
Zero == Fraction(0, 1)

STR_years == STR_year \o <<"s">>
STR_months == STR_month \o <<"s">>

\* The sum of the integers of the entries whose unit is in units
RECURSIVE QuantitySum(_, _)
QuantitySum(entries, units) ==
    IF entries = <<>> THEN 0
    ELSE (IF Head(entries).unit \in units THEN int(Head(entries).number) ELSE 0)
             + QuantitySum(Tail(entries), units)

AllUnits == {STR_year, STR_years, STR_month, STR_months}

\* C1: skills_match_percentage is 100 * (the number of distinct strings that
\* are a resume skill and a requirement token) / (the number of requirement
\* tokens, duplicates counted) when the job has a requirement token, and 0
\* when it has none; strings match when they are equal character by
\* character.
C1_SkillsPercentage ==
    Matched =>
        /\ Len(match_results) = Len(job_descriptions)
        /\ \A i \in 1..Len(match_results) :
            LET tokens == job_descriptions[i].requirements
                both == {w \in set(resume_info.skills) :
                            \E k \in 1..Len(tokens) : tokens[k] = w}
                p == match_results[i].skills_match_percentage
            IN  /\ p.den > 0
                /\ IF Len(tokens) > 0
                   THEN p.num * Len(tokens) = 100 * Cardinality(both) * p.den
                   ELSE p.num = 0

\* A job without tokens next to a job whose tokens repeat and match in part
C1_Witness ==
    /\ pc = "matched"
    /\ Len(match_results) = 2
    /\ job_descriptions[1].requirements = <<>>
    /\ match_results[1].skills_match_percentage = Zero
    /\ job_descriptions[2].requirements = <<W_Py, W_SQL, W_Py>>
    /\ match_results[2].skills_match_percentage = Fraction(100, 3)

\* C2: the selection returns the result with the greatest
\* skills_match_percentage, the first of them when several share it; of an
\* empty sequence it returns None, raises nothing and nothing is shown.
C2_BestFit ==
    pc \in {"selected", "done"} =>
        IF match_results = <<>>
        THEN /\ best_fit = None
             /\ error = ""
             /\ shown = <<>>
        ELSE \E i \in 1..Len(match_results) :
                /\ best_fit = match_results[i]
                /\ \A j \in 1..Len(match_results) :
                       LessEq(match_results[j].skills_match_percentage,
                              match_results[i].skills_match_percentage)
                /\ \A j \in 1..(i - 1) :
                       Less(match_results[j].skills_match_percentage,
                            match_results[i].skills_match_percentage)

\* Two different results share the maximum, after a lower one
C2_Witness ==
    /\ pc = "selected"
    /\ Len(match_results) = 3
    /\ Less(match_results[1].skills_match_percentage,
            match_results[2].skills_match_percentage)
    /\ match_results[2].skills_match_percentage = match_results[3].skills_match_percentage
    /\ match_results[2] # match_results[3]
    /\ best_fit = match_results[2]

\* C3: a text that is a JSON object gives a record whose description is the
\* object's description ("" when absent) and whose title is its title ("N/A"
\* when absent), the tokens, experience entries and education keywords being
\* those of that description; a text that is no JSON gives a record whose
\* description is the text and whose title is "N/A"; one record per text, in
\* order.
C3_JsonOrPlain ==
    pc = "parsed" =>
        /\ Len(job_descriptions) = Len(job_desc_texts)
        /\ \A i \in 1..Len(job_desc_texts) :
            LET text == job_desc_texts[i]
                object == json_loads(text)
                job == job_descriptions[i]
                description == IF object.kind = "dict"
                               THEN get(object, STR_description, <<>>)
                               ELSE text
            IN  /\ object.kind \in {"dict", "JSONDecodeError"}
                /\ job.description = description
                /\ job.job_title = (IF object.kind = "dict"
                                    THEN get(object, STR_title, STR_NA)
                                    ELSE STR_NA)
                /\ job.requirements = FindWords(description, 1)
                /\ job.experience_required = FindJobExperience(description, 1)
                /\ job.education_required = FindEducation(description)

\* C4: total_experience_required is the sum of the integers of the job's
\* experience entries whatever their unit (0 without entries), and
\* experience_match holds exactly when the resume's total experience in years
\* is at least that sum.
C4_ExperienceRequired ==
    Matched =>
        \A i \in 1..Len(match_results) :
            LET entries == job_descriptions[i].experience_required
                required == match_results[i].total_experience_required
            IN  /\ \A k \in 1..Len(entries) : entries[k].unit \in AllUnits
                /\ required = QuantitySum(entries, AllUnits)
                /\ match_results[i].experience_match
                       <=> (resume_info.total_experience >= 12 * required)

\* A months entry counted as 6, which a resume of 5 years does not reach
C4_Witness ==
    /\ pc = "matched"
    /\ \E i \in 1..Len(match_results) :
        /\ job_descriptions[i].experience_required =
               <<[number |-> <<"6">>, unit |-> STR_months]>>
        /\ match_results[i].total_experience_required = 6
        /\ resume_info.total_experience = 60
        /\ ~match_results[i].experience_match

\* C5: education_match holds exactly when a resume education keyword is in the
\* job's education_required; so it fails when the resume has none and when the
\* job requires none.
C5_EducationMatch ==
    Matched =>
        \A i \in 1..Len(match_results) :
            match_results[i].education_match
                <=> (set(resume_info.education)
                        \cap set(job_descriptions[i].education_required) # {})

\* A resume with education keywords, a job that requires one of them and a job
\* that requires none
C5_Witness ==
    /\ pc = "matched"
    /\ Len(match_results) = 2
    /\ resume_info.education # <<>>
    /\ job_descriptions[1].education_required = <<W_PhD>>
    /\ match_results[1].education_match
    /\ job_descriptions[2].education_required = <<>>
    /\ ~match_results[2].education_match

\* A text looks like JSON when it opens, after whitespace, with the brace of
\* an object
LooksLikeJson(text) ==
    LET i == RunEnd(text, 1, Whitespace)
    IN  i <= Len(text) /\ text[i] = "{"

\* C6: when a job text looks like JSON and is no JSON object,
\* parse_job_descriptions raises: no job record is made of it and it is not
\* taken as a plain description.
C6_MalformedJsonRaises ==
    (/\ pc \notin {"start", "text", "info"}
     /\ shown # <<"warning">>
     /\ \E i \in 1..Len(job_desc_texts) :
            /\ LooksLikeJson(job_desc_texts[i])
            /\ json_loads(job_desc_texts[i]).kind # "dict")
        => /\ pc = "raised"
           /\ error # ""
           /\ job_descriptions = <<>>

\* C7: the resume's total experience is the sum of the integers of the matched
\* entries in year(s) plus a twelfth of the sum of those in month(s); every
\* entry is one or the other, and the total is 0 without entries.
C7_TotalExperience ==
    pc \in {"info", "parsed", "raised", "matched", "selected", "done"}
        /\ shown # <<"warning">> =>
        LET entries == FindResumeExperience(resume_text, 1)
        IN  /\ \A k \in 1..Len(entries) : entries[k].unit \in AllUnits
            /\ resume_info.total_experience =
                   12 * QuantitySum(entries, {STR_year, STR_years})
                      + QuantitySum(entries, {STR_month, STR_months})
            /\ entries = <<>> => resume_info.total_experience = 0

\* "5 years ..." and "6 months ..." make 5.5 years
C7_Witness ==
    /\ pc = "info"
    /\ FindResumeExperience(resume_text, 1) =
           <<[number |-> <<"5">>, unit |-> STR_years],
             [number |-> <<"6">>, unit |-> STR_months] >>
    /\ resume_info.total_experience = 66

\* Where the text of page k starts in the text of the document, less one
RECURSIVE PageOffset(_, _)
PageOffset(pages, k) ==
    IF k = 1 THEN 0 ELSE PageOffset(pages, k - 1) + Len(pages[k - 1]) + 1

\* C8: the text of a PDF is its pages' texts in page order, each followed by
\* one newline; a page without text gives an empty text and its newline, and
\* the extraction raises nothing.
C8_PdfText ==
    pc \in {"text", "info"} /\ resume_file.type = "pdf" =>
        LET pages == resume_file.parts
        IN  /\ error = ""
            /\ Len(resume_text) = PageOffset(pages, Len(pages) + 1)
            /\ \A k \in 1..Len(pages) :
                LET at == PageOffset(pages, k)
                IN  /\ SubSeq(resume_text, at + 1, at + Len(pages[k])) = pages[k]
                    /\ resume_text[at + Len(pages[k]) + 1] = "\n"

\* A page without text before a page with text
C8_Witness ==
    /\ pc = "text"
    /\ resume_file.type = "pdf"
    /\ resume_file.parts = <<PageEmpty, PageYears>>
    /\ resume_text = STR_newline \o PageYears \o STR_newline

\* C9: a skills_match_percentage is at least 0 and at most 100.
C9_PercentageRange ==
    Matched =>
        \A i \in 1..Len(match_results) :
            /\ LessEq(Zero, match_results[i].skills_match_percentage)
            /\ LessEq(match_results[i].skills_match_percentage, Hundred)

\* Both ends are met: no token at all, and one token that is a skill while
\* the resume has more skills than the job has tokens
C9_Witness ==
    /\ pc = "matched"
    /\ Len(resume_info.skills) > 1
    /\ \E i \in 1..Len(match_results) :
        /\ Len(job_descriptions[i].requirements) = 1
        /\ match_results[i].skills_match_percentage = Hundred
    /\ \E i \in 1..Len(match_results) :
        match_results[i].skills_match_percentage = Zero

\* C10: another run on the same resume text and job texts differs from this
\* one only in the order in which list(skills) and list(education) enumerate
\* their sets; whatever that order, the match results and the best fit are
\* those of this run.
C10_SameResults ==
    Matched =>
        \A skills_list \in Listings(set(resume_info.skills)) :
        \A education_list \in Listings(set(resume_info.education)) :
            LET other_info == extract_resume_info(resume_text, skills_list, education_list)
                other_results ==
                    match_resume_with_jobs(other_info,
                                           parse_job_descriptions(job_desc_texts).value)
            IN  /\ other_results = match_results
                /\ pc \in {"selected", "done"} => max(other_results) = best_fit

\* A resume with two skills and two education keywords, of which the job
\* requires the one that this run lists second
C10_Witness ==
    /\ pc = "selected"
    /\ Len(resume_info.skills) >= 2
    /\ Len(resume_info.education) = 2
    /\ Len(match_results) = 2
    /\ job_descriptions[1].education_required = <<resume_info.education[2]>>
    /\ match_results[1].education_match
    /\ best_fit = match_results[2]

====
